---------------------------- MODULE Spec2Model ----------------------------
(* A model of rs-refresh-ddns (src/src/main.rs): a process that loads a    *)
(* configuration, starts a cron scheduler and, on every tick, runs one     *)
(* update cycle: resolve the current IPv6 address (external HTTP service   *)
(* or local interface scan) and publish it to DuckDNS.                     *)
(*                                                                         *)
(* Strings that the program only passes around (domain, token, url, cron)  *)
(* are TLA+ strings. Strings the program receives from the network or      *)
(* formats from an address are sequences of one-character strings, so      *)
(* that trimming and IPv6 syntax can be computed on them.                  *)
(* A formatted message (format!, info!, error!) is a sequence of           *)
(* fragments, each either a literal/configuration string or a character    *)
(* sequence.                                                               *)
EXTENDS Integers, Sequences, FiniteSets, TLC

VARIABLES
    mainPc,     \* position of main(): "load_config", "scheduler_new", "job_new",
                \* "scheduler_add", "scheduler_start", "loop", "panicked", "exited_err"
    config,     \* the Config built by Config::from_env (NoConfig before)
    ticks,      \* number of scheduler ticks fired so far
    cycles,     \* in-flight update cycles: cycle id -> cycle record
    finished,   \* record of the most recently finished cycle (NoCycle before)
    mainLog,    \* log lines emitted by main() outside the cycles
    lpc,        \* local-scan harness: "ready" | "done"
    lIfs,       \* local-scan harness: result of if_addrs::get_if_addrs()
    lName,      \* local-scan harness: interface_name argument (None if absent)
    lRes,       \* local-scan harness: result of get_local_ipv6_address
    sFile,      \* startup harness: the config.toml the process is started with
    sEnv        \* startup harness: the environment the process is started with

vars == <<mainPc, config, ticks, cycles, finished, mainLog,
          lpc, lIfs, lName, lRes, sFile, sEnv>>

mainVars == <<mainPc, config, ticks, cycles, finished, mainLog>>
localVars == <<lpc, lIfs, lName, lRes>>
startVars == <<sFile, sEnv>>
harnessVars == <<localVars, startVars>>

-----------------------------------------------------------------------------
(* Bounds *)

\* scheduler ticks explored
MaxTicks == 2
\* interface entries returned by one enumeration
MaxIfaces == 2

-----------------------------------------------------------------------------
(* Values *)

\* Option::None for optional strings
None == "<None>"

\* a fragment of a formatted message
Lit(s) == [s |-> s, a |-> <<>>]
Chars(cs) == [s |-> "", a |-> cs]

\* log record of the tracing macros
LogLine(level, msg) == [level |-> level, msg |-> msg]

\* Box<dyn Error>: where the error came from and its Display text
Error(kind, msg) == [kind |-> kind, msg |-> msg]
NoError == Error("none", <<>>)

\* Result<String, Box<dyn Error>> and Result<(), Box<dyn Error>>
Ok(v) == [ok |-> TRUE, val |-> v, err |-> NoError]
Err(e) == [ok |-> FALSE, val |-> <<>>, err |-> e]
Pending == [ok |-> FALSE, val |-> <<>>, err |-> Error("pending", <<>>)]


-----------------------------------------------------------------------------
(* Configuration: struct Config, struct ConfigFile, Config::from_file,      *)
(* Config::from_env                                                         *)

DefaultCron == "0 */5 * * * *"
DefaultMethod == "external"
DefaultUrl == "https://6.ipw.cn"

\* struct Config
Config(cron, method, url, domain, token, iface) ==
    [cron |-> cron, ipv6_method |-> method, ip_service_url |-> url,
     duckdns_domain |-> domain, duckdns_token |-> token,
     hosts_interface |-> iface]

NoConfig == Config(None, None, None, None, None, None)

\* The six optional settings of a source (struct ConfigFile, or the six
\* environment variables); None is an absent key / unset variable.
Settings(cron, method, url, domain, token, iface) ==
    [cron |-> cron, ipv6_method |-> method, ip_service_url |-> url,
     duckdns_domain |-> domain, duckdns_token |-> token,
     hosts_interface |-> iface]

NoSettings == Settings(None, None, None, None, None, None)

\* config.toml as the program finds it: state "absent" (read_to_string
\* fails), "invalid" (toml::from_str fails) or "parsed" with its settings
File(state, settings) == [state |-> state, settings |-> settings]

\* the startup harness is not in use
NotGiven == File("not given", NoSettings)

\* Option::unwrap_or_else with a default
UnwrapOr(opt, default) == IF opt = None THEN default ELSE opt

\* Config::from_file: Err when the file cannot be read or parsed, or when
\* duckdns_domain / duckdns_token are missing from it
from_file(file) ==
    IF file.state # "parsed" THEN [ok |-> FALSE, cfg |-> NoConfig]
    ELSE LET f == file.settings IN
         IF f.duckdns_domain = None \/ f.duckdns_token = None
         THEN [ok |-> FALSE, cfg |-> NoConfig]
         ELSE [ok |-> TRUE,
               cfg |-> Config(UnwrapOr(f.cron, DefaultCron),
                              UnwrapOr(f.ipv6_method, DefaultMethod),
                              UnwrapOr(f.ip_service_url, DefaultUrl),
                              f.duckdns_domain, f.duckdns_token,
                              f.hosts_interface)]

\* from_env that takes DUCKDNS_DOMAIN and DUCKDNS_TOKEN as they are (`.ok()`
\* instead of `.expect()`), set or not
from_env_no_expect(file, env) ==
    LET r == from_file(file) IN
    IF r.ok THEN [panic |-> FALSE, source |-> "file", cfg |-> r.cfg]
    ELSE [panic |-> FALSE, source |-> "env",
          cfg |-> Config(UnwrapOr(env.cron, DefaultCron),
                         UnwrapOr(env.ipv6_method, DefaultMethod),
                         UnwrapOr(env.ip_service_url, DefaultUrl),
                         env.duckdns_domain, env.duckdns_token,
                         env.hosts_interface)]

\* Config::from_env: the file if from_file succeeds, else the environment;
\* expect() panics when DUCKDNS_DOMAIN or DUCKDNS_TOKEN is unset
from_env(file, env) ==
    LET r == from_file(file) IN
    IF r.ok THEN [panic |-> FALSE, source |-> "file", cfg |-> r.cfg]
    ELSE IF env.duckdns_domain = None \/ env.duckdns_token = None
         THEN [panic |-> TRUE, source |-> "env", cfg |-> NoConfig]
         ELSE [panic |-> FALSE, source |-> "env",
               cfg |-> Config(UnwrapOr(env.cron, DefaultCron),
                              UnwrapOr(env.ipv6_method, DefaultMethod),
                              UnwrapOr(env.ip_service_url, DefaultUrl),
                              env.duckdns_domain, env.duckdns_token,
                              env.hosts_interface)]

\* The configuration files and environments the process is started with
Files ==
    { File("absent", NoSettings),
      File("invalid", NoSettings),
      File("parsed", Settings(None, None, None, "home", "s3cret", None)),
      File("parsed", Settings(None, "local", None, "home", "s3cret", "eth0")),
      File("parsed", Settings(None, "external", None, "home", None, None)) }

Envs ==
    { NoSettings,
      Settings(None, None, None, "home", "s3cret", None),
      Settings(None, "dns", "https://ip.example", "home", "s3cret", None),
      Settings(None, "local", None, "home", "s3cret", None),
      Settings("every minute", None, None, "home", "s3cret", None),
      Settings(None, None, None, "", "", None) }

\* cron expressions that Job::new_async rejects
InvalidCrons == {"every minute"}

-----------------------------------------------------------------------------
(* Address resolution: get_local_ipv6_address                               *)

\* Text of the IPv6 addresses the interfaces of the model carry
\* (Ipv6Addr::to_string): 1 is ::1, 2 is fe80::1, 3 is 2001:db8::1
to_string(addr) ==
    CASE addr = 1 -> <<":", ":", "1">>
      [] addr = 2 -> <<"f", "e", "8", "0", ":", ":", "1">>
      [] OTHER    -> <<"2", "0", "0", "1", ":", "d", "b", "8", ":", ":", "1">>

\* One entry of if_addrs::get_if_addrs(): an interface name with one of its
\* addresses; loopback is the answer of is_loopback(), v6 tells whether
\* ip() is an IpAddr::V6, addr identifies the address
IfNames == {"lo", "eth0"}
IfEntries ==
    [name : IfNames, loopback : BOOLEAN, v6 : BOOLEAN, addr : {1, 3}]

RECURSIVE SeqsUpTo(_, _)
SeqsUpTo(S, n) ==
    IF n = 0 THEN {<<>>}
    ELSE LET shorter == SeqsUpTo(S, n - 1) IN
         shorter \cup {Append(q, x) : q \in {r \in shorter : Len(r) = n - 1}, x \in S}

\* what get_if_addrs() can answer: an io::Error, or a list of entries
IfAddrsResults ==
    {[ok |-> FALSE, list |-> <<>>]} \cup
    {[ok |-> TRUE, list |-> l] : l \in SeqsUpTo(IfEntries, MaxIfaces)}

\* no enumeration was made
NoIfAddrs == [ok |-> FALSE, list |-> <<>>]

\* the enumerations the running process meets
IfEntry(name, loopback, v6, addr) ==
    [name |-> name, loopback |-> loopback, v6 |-> v6, addr |-> addr]

SystemIfAddrs ==
    { [ok |-> FALSE, list |-> <<>>],
      [ok |-> TRUE, list |-> <<>>],
      [ok |-> TRUE, list |-> <<IfEntry("lo", TRUE, TRUE, 1)>>],
      [ok |-> TRUE, list |-> <<IfEntry("lo", TRUE, FALSE, 1),
                               IfEntry("lo", TRUE, TRUE, 1),
                               IfEntry("eth0", FALSE, FALSE, 1)>>],
      [ok |-> TRUE, list |-> <<IfEntry("lo", TRUE, TRUE, 1),
                               IfEntry("eth0", FALSE, FALSE, 1),
                               IfEntry("eth0", FALSE, TRUE, 3)>>] }

\* ScanFrom that skips loopback entries whether or not a name is given
RECURSIVE ScanFromAlwaysSkipLoopback(_, _, _)
ScanFromAlwaysSkipLoopback(list, i, interface_name) ==
    IF i > Len(list) THEN 0
    ELSE IF interface_name # None /\ list[i].name # interface_name
         THEN ScanFromAlwaysSkipLoopback(list, i + 1, interface_name)
    ELSE IF list[i].loopback
         THEN ScanFromAlwaysSkipLoopback(list, i + 1, interface_name)
    ELSE IF list[i].v6 THEN i
    ELSE ScanFromAlwaysSkipLoopback(list, i + 1, interface_name)

\* ScanFrom without the loopback test
RECURSIVE ScanFromNoLoopbackSkip(_, _, _)
ScanFromNoLoopbackSkip(list, i, interface_name) ==
    IF i > Len(list) THEN 0
    ELSE IF interface_name # None /\ list[i].name # interface_name
         THEN ScanFromNoLoopbackSkip(list, i + 1, interface_name)
    ELSE IF list[i].v6 THEN i
    ELSE ScanFromNoLoopbackSkip(list, i + 1, interface_name)

\* ScanFrom that gives up the name filter once the named interface showed
\* an entry without an IPv6 address
RECURSIVE ScanFromNameFallback(_, _, _)
ScanFromNameFallback(list, i, interface_name) ==
    IF i > Len(list) THEN 0
    ELSE IF interface_name # None /\ list[i].name # interface_name
         THEN ScanFromNameFallback(list, i + 1, interface_name)
    ELSE IF list[i].loopback /\ interface_name = None
         THEN ScanFromNameFallback(list, i + 1, interface_name)
    ELSE IF list[i].v6 THEN i
    ELSE ScanFromNoLoopbackSkip(list, i + 1, None)

\* the for loop of get_local_ipv6_address from entry i on: the index of the
\* entry whose address is returned, 0 when the loop ends without one
RECURSIVE ScanFrom(_, _, _)
ScanFrom(list, i, interface_name) ==
    IF i > Len(list) THEN 0
    ELSE IF interface_name # None /\ list[i].name # interface_name
         THEN ScanFrom(list, i + 1, interface_name)
    ELSE IF list[i].loopback /\ interface_name = None
         THEN ScanFrom(list, i + 1, interface_name)
    ELSE IF list[i].v6 THEN i
    ELSE ScanFrom(list, i + 1, interface_name)

\* get_local_ipv6_address: the result and the log lines it writes
get_local_ipv6_address(ifaddrs, interface_name) ==
    IF ~ifaddrs.ok
    THEN [res |-> Err(Error("IfAddrs", <<Lit("get_if_addrs failed")>>)),
          log |-> <<>>]
    ELSE LET i == ScanFrom(ifaddrs.list, 1, interface_name) IN
         IF i # 0
         THEN LET ip_str == to_string(ifaddrs.list[i].addr) IN
              [res |-> Ok(ip_str),
               log |-> <<LogLine("DEBUG",
                            <<Lit("Got IPv6 address from interface '"),
                              Lit(ifaddrs.list[i].name), Lit("': "),
                              Chars(ip_str)>>)>>]
         ELSE IF interface_name # None
         THEN [res |-> Err(Error("InterfaceNotFound",
                            <<Lit("No IPv6 address found for interface '"),
                              Lit(interface_name), Lit("'")>>)),
               log |-> <<>>]
         ELSE [res |-> Err(Error("NoAddressFound",
                            <<Lit("No public IPv6 address found on any interface")>>)),
               log |-> <<>>]

-----------------------------------------------------------------------------
(* Address resolution: get_ipv6_from_external_service                       *)

\* bodies the IP service answers with
Bodies ==
    { <<>>,
      <<":", ":", "1">>,
      <<"2", "0", "0", "1", ":", "d", "b", "8", ":", ":", "1">>,
      <<"2", "0", "0", "1", ":", "d", "b", "8", ":", ":", "1", "\n">>,
      <<"1", ".", "2", ".", "3", ".", "4">>,
      <<"<", "h", "t", "m", "l", ">">> }

\* HTTP status codes the provider answers with
Statuses == {200, 204, 304, 400, 403}


\* An HTTP exchange as reqwest reports it: "send_err" (send() fails),
\* "text_err" (the status arrived, reading the body fails), "ok".
\* The program never reads the status of the IP service's answer, so the
\* answers of the IP service carry status 0.
HttpResponse(kind, status, body) == [kind |-> kind, status |-> status, body |-> body]

IpServiceResponses ==
    {HttpResponse("send_err", 0, <<>>)} \cup
    {HttpResponse("text_err", 0, <<>>)} \cup
    {HttpResponse("ok", 0, b) : b \in Bodies}

\* get_ipv6_from_external_service after send(): the `?` on send() and on
\* text(), then Ok(ip) with the body as received
external_result(resp) ==
    IF resp.kind = "send_err"
    THEN [res |-> Err(Error("Transport", <<Lit("error sending request")>>)),
          log |-> <<>>]
    ELSE IF resp.kind = "text_err"
    THEN [res |-> Err(Error("Transport", <<Lit("error decoding response body")>>)),
          log |-> <<>>]
    ELSE LET ip == resp.body IN
         [res |-> Ok(ip),
          log |-> <<LogLine("DEBUG",
                       <<Lit("Got IPv6 from external service: "), Chars(ip)>>)>>]

-----------------------------------------------------------------------------
(* Publishing: update_duckdns                                               *)

\* the format! of the request URL
duckdns_url(cfg, ipv6) ==
    <<Lit("https://www.duckdns.org/update?domains="), Lit(cfg.duckdns_domain),
      Lit("&token="), Lit(cfg.duckdns_token),
      Lit("&ipv6="), Chars(ipv6), Lit("&verbose=true")>>

\* bodies the provider answers with
ProviderBodies == { <<"O", "K">>, <<"K", "O">> }

ProviderResponses ==
    {HttpResponse("send_err", 0, <<>>)} \cup
    {HttpResponse("text_err", st, <<>>) : st \in Statuses} \cup
    {HttpResponse("ok", st, b) : st \in Statuses, b \in ProviderBodies}

NoResponse == HttpResponse("none", 0, <<>>)

\* is_success that accepts 200 only
is_success_200_only(status) == status = 200

\* StatusCode::is_success
is_success(status) == status >= 200 /\ status < 300

\* text of a status code in a message
StatusText(status) ==
    CASE status = 200 -> "200 OK"
      [] status = 204 -> "204 No Content"
      [] status = 304 -> "304 Not Modified"
      [] status = 400 -> "400 Bad Request"
      [] status = 403 -> "403 Forbidden"
      [] OTHER -> "<unknown status code>"

\* update_duckdns before send(): the URL and the log line that announces it
publish_request(cfg, ipv6) ==
    LET url == duckdns_url(cfg, ipv6) IN
    [url |-> url,
     log |-> <<LogLine("INFO", <<Lit("Updating DuckDNS with URL: ")>> \o url)>>]

\* update_duckdns after send(): the `?` on send() and on text(), the log
\* line of the response, then the decision on the status
publish_result(resp) ==
    IF resp.kind = "send_err"
    THEN [res |-> Err(Error("Transport", <<Lit("error sending request")>>)),
          log |-> <<>>]
    ELSE IF resp.kind = "text_err"
    THEN [res |-> Err(Error("Transport", <<Lit("error decoding response body")>>)),
          log |-> <<>>]
    ELSE [res |-> IF is_success(resp.status)
                  THEN Ok(<<>>)
                  ELSE Err(Error("ProviderRejected",
                             <<Lit("DuckDNS update failed with status: "),
                               Lit(StatusText(resp.status))>>)),
          log |-> <<LogLine("INFO",
                       <<Lit("DuckDNS update response - Status: "),
                         Lit(StatusText(resp.status)), Lit(", Body: "),
                         Chars(resp.body)>>)>>]

-----------------------------------------------------------------------------
(* One update cycle: the job closure of main, update_ddns, get_ipv6_address *)

\* The task of one tick. pc: "start" (spawned), "await_ip" (GET to the IP
\* service in flight), "await_pub" (GET to the provider in flight), "done".
\* strategy: the resolver get_ipv6_address chose. ipRequests / ifQueries:
\* GETs sent to the IP service / calls of get_if_addrs. ifaddrs: what
\* get_if_addrs answered. resolve: result of
\* get_ipv6_address. ipResponse: the IP service's answer. requests: URLs of the GETs sent to the provider.
\* response: the provider's answer. outcome: result of update_ddns.
NewCycle(cfg) ==
    [pc |-> "start", cfg |-> cfg, strategy |-> "none",
     ipRequests |-> 0, ifQueries |-> 0, ifaddrs |-> NoIfAddrs,
     ipResponse |-> NoResponse,
     resolve |-> Pending,
     requests |-> <<>>, response |-> NoResponse, outcome |-> Pending,
     log |-> <<>>]

NoCycle ==
    [pc |-> "none", cfg |-> NoConfig, strategy |-> "none",
     ipRequests |-> 0, ifQueries |-> 0, ifaddrs |-> NoIfAddrs,
     ipResponse |-> NoResponse,
     resolve |-> Pending,
     requests |-> <<>>, response |-> NoResponse, outcome |-> Pending,
     log |-> <<>>]

\* strategy_of with the fallback arm calling the local resolver
strategy_of_local_fallback(method) ==
    CASE method = "external" -> "external"
      [] OTHER               -> "local"

\* get_ipv6_address: the strategy for a method string
strategy_of(method) ==
    CASE method = "external" -> "external"
      [] method = "local"    -> "local"
      [] OTHER               -> "external"

\* get_ipv6_address: what the match arm logs before it calls the resolver
dispatch_log(cfg) ==
    IF cfg.ipv6_method \in {"external", "local"} THEN <<>>
    ELSE <<LogLine("ERROR", <<Lit("Invalid IPV6_METHOD: "), Lit(cfg.ipv6_method),
                             Lit(". Using external service.")>>)>>

\* the match in the job closure: update_ddns returned, the task logs and ends
finish(cyc, outcome) ==
    [cyc EXCEPT
       !.pc = "done",
       !.outcome = outcome,
       !.log = @ \o <<IF outcome.ok
                      THEN LogLine("INFO", <<Lit("DDNS update completed successfully")>>)
                      ELSE LogLine("ERROR", <<Lit("Failed to update DDNS: ")>>
                                            \o outcome.err.msg)>>]

\* after_resolve that publishes the address of the last finished cycle
\* when there is one (the address kept outside the cycle)
after_resolve_stale(cyc, r) ==
    LET c1 == [cyc EXCEPT !.resolve = r.res, !.log = @ \o r.log] IN
    IF ~r.res.ok THEN finish(c1, Err(r.res.err))
    ELSE LET ipv6 == IF finished.pc = "done" /\ finished.resolve.ok
                     THEN finished.resolve.val ELSE r.res.val
             req == publish_request(c1.cfg, ipv6) IN
         [c1 EXCEPT
            !.pc = "await_pub",
            !.log = @ \o <<LogLine("INFO", <<Lit("Current IPv6 address: "),
                                             Chars(ipv6)>>)>> \o req.log,
            !.requests = Append(@, req.url)]

\* after_resolve without the `?` on get_ipv6_address: update_duckdns runs
\* whatever the resolver returned
after_resolve_unchecked(cyc, r) ==
    LET c1 == [cyc EXCEPT !.resolve = r.res, !.log = @ \o r.log]
        ipv6 == r.res.val
        req == publish_request(c1.cfg, ipv6) IN
    [c1 EXCEPT
       !.pc = "await_pub",
       !.log = @ \o <<LogLine("INFO", <<Lit("Current IPv6 address: "),
                                        Chars(ipv6)>>)>> \o req.log,
       !.requests = Append(@, req.url)]

\* update_ddns after get_ipv6_address returned: `?` ends the cycle on Err;
\* on Ok the address is logged and update_duckdns runs up to its send()
after_resolve(cyc, r) ==
    LET c1 == [cyc EXCEPT !.resolve = r.res, !.log = @ \o r.log] IN
    IF ~r.res.ok THEN finish(c1, Err(r.res.err))
    ELSE LET ipv6 == r.res.val
             req == publish_request(c1.cfg, ipv6) IN
         [c1 EXCEPT
            !.pc = "await_pub",
            !.log = @ \o <<LogLine("INFO", <<Lit("Current IPv6 address: "),
                                             Chars(ipv6)>>)>> \o req.log,
            !.requests = Append(@, req.url)]

\* update_ddns from its start to the first suspension point
start_cycle(cyc, ifaddrs) ==
    LET cfg == cyc.cfg
        c1 == [cyc EXCEPT
                 !.strategy = strategy_of(cfg.ipv6_method),
                 !.log = @ \o <<LogLine("INFO", <<Lit("Starting DDNS update process")>>)>>
                          \o dispatch_log(cfg)] IN
    IF c1.strategy = "local"
    THEN after_resolve([c1 EXCEPT !.ifQueries = @ + 1, !.ifaddrs = ifaddrs],
                       get_local_ipv6_address(ifaddrs, cfg.hosts_interface))
    ELSE [c1 EXCEPT
            !.pc = "await_ip",
            !.ipRequests = @ + 1,
            !.log = @ \o <<LogLine("DEBUG",
                             <<Lit("Fetching IPv6 from external service: "),
                               Lit(cfg.ip_service_url)>>)>>]

\* the IP service answered (or the request failed)
ip_response(cyc, resp) ==
    after_resolve([cyc EXCEPT !.ipResponse = resp], external_result(resp))

\* pub_response that sends the request once more when it failed
pub_response_retry(cyc, resp) ==
    LET r == publish_result(resp)
        c1 == [cyc EXCEPT !.response = resp, !.log = @ \o r.log] IN
    IF ~r.res.ok /\ Len(cyc.requests) < 2
    THEN [c1 EXCEPT !.requests = Append(@, @[1])]
    ELSE finish(c1, IF r.res.ok THEN Ok(<<>>) ELSE Err(r.res.err))

\* pub_response with the result of update_duckdns dropped (`.ok()` or
\* `let _ =` instead of `?`)
pub_response_ignored(cyc, resp) ==
    LET r == publish_result(resp) IN
    finish([cyc EXCEPT !.response = resp, !.log = @ \o r.log], Ok(<<>>))

\* the provider answered (or the request failed)
pub_response(cyc, resp) ==
    LET r == publish_result(resp) IN
    finish([cyc EXCEPT !.response = resp, !.log = @ \o r.log],
           IF r.res.ok THEN Ok(<<>>) ELSE Err(r.res.err))

\* process_after with the error of a cycle propagated out of the task
process_after_propagating(pc, outcome) ==
    IF outcome.ok THEN pc ELSE "exited_err"

\* what becomes of the process when a job's future completes: the match in
\* the closure consumes the Result, nothing reaches main or the scheduler
process_after(pc, outcome) == pc

-----------------------------------------------------------------------------
(* The process: main, the scheduler's ticks and the steps of the cycles     *)

NoCycles == [c \in {} |-> NoCycle]

Init ==
    /\ mainPc = "load_config"
    /\ config = NoConfig
    /\ ticks = 0
    /\ cycles = NoCycles
    /\ finished = NoCycle
    /\ mainLog = <<>>
    /\ lpc = "off"
    /\ lIfs = [ok |-> FALSE, list |-> <<>>]
    /\ lName = None
    /\ lRes = Pending
    /\ sFile = NotGiven
    /\ sEnv = NoSettings

\* main up to Config::from_env: the process is started with some
\* config.toml and some environment
LoadConfigFrom(file, env) ==
    /\ mainPc = "load_config"
    /\ LET r == from_env(file, env) IN
         /\ mainPc' = IF r.panic THEN "panicked" ELSE "scheduler_new"
         /\ config' = r.cfg
    /\ mainLog' = Append(mainLog, LogLine("INFO", <<Lit("Starting DDNS updater")>>))
    /\ UNCHANGED <<ticks, cycles, finished, harnessVars>>

LoadConfig == \E file \in Files, env \in Envs : LoadConfigFrom(file, env)

\* JobScheduler::new().await?
NewScheduler ==
    /\ mainPc = "scheduler_new"
    /\ \E ok \in BOOLEAN : mainPc' = IF ok THEN "job_new" ELSE "exited_err"
    /\ UNCHANGED <<config, ticks, cycles, finished, mainLog, harnessVars>>

\* Job::new_async(cron_expr, ...)?
NewJob ==
    /\ mainPc = "job_new"
    /\ mainPc' = IF config.cron \in InvalidCrons THEN "exited_err" ELSE "scheduler_add"
    /\ UNCHANGED <<config, ticks, cycles, finished, mainLog, harnessVars>>

\* scheduler.add(job).await?
AddJob ==
    /\ mainPc = "scheduler_add"
    /\ \E ok \in BOOLEAN : mainPc' = IF ok THEN "scheduler_start" ELSE "exited_err"
    /\ UNCHANGED <<config, ticks, cycles, finished, mainLog, harnessVars>>

\* scheduler.start().await?, then main sleeps in its loop forever
StartScheduler ==
    /\ mainPc = "scheduler_start"
    /\ \E ok \in BOOLEAN : mainPc' = IF ok THEN "loop" ELSE "exited_err"
    /\ UNCHANGED <<config, ticks, cycles, finished, mainLog, harnessVars>>

\* the scheduler fires the job: the closure clones the config and the
\* future of a new cycle is spawned
Tick ==
    /\ mainPc = "loop"
    /\ ticks < MaxTicks
    /\ ticks' = ticks + 1
    /\ cycles' = [c \in DOMAIN cycles \cup {ticks + 1} |->
                    IF c \in DOMAIN cycles THEN cycles[c] ELSE NewCycle(config)]
    /\ UNCHANGED <<mainPc, config, finished, mainLog, harnessVars>>

\* Step with a flag that the previous cycle's success leaves behind: the
\* cycle finishing after a successful one reports a failure
Step_leftover_flag(c, next) ==
    /\ IF next.pc = "done"
       THEN /\ cycles' = [d \in DOMAIN cycles \ {c} |-> cycles[d]]
            /\ finished' = IF finished.pc = "done" /\ finished.outcome.ok
                           THEN [next EXCEPT !.outcome =
                                    Err(Error("Transport", <<Lit("already updated")>>))]
                           ELSE next
            /\ mainPc' = process_after(mainPc, next.outcome)
       ELSE /\ cycles' = [cycles EXCEPT ![c] = next]
            /\ UNCHANGED <<finished, mainPc>>
    /\ UNCHANGED <<config, ticks, mainLog, harnessVars>>

\* Step with the result of get_ipv6_address kept in one place shared by
\* all tasks: the cycles in flight see the latest one
Step_shared_resolve(c, next) ==
    /\ IF next.pc = "done"
       THEN /\ cycles' = [d \in DOMAIN cycles \ {c} |->
                            [cycles[d] EXCEPT !.resolve = next.resolve]]
            /\ finished' = next
            /\ mainPc' = process_after(mainPc, next.outcome)
       ELSE /\ cycles' = [d \in DOMAIN cycles |->
                            IF d = c THEN next
                            ELSE [cycles[d] EXCEPT !.resolve = next.resolve]]
            /\ UNCHANGED <<finished, mainPc>>
    /\ UNCHANGED <<config, ticks, mainLog, harnessVars>>

\* cycle c moves to next; a cycle that is done leaves the set of tasks
Step(c, next) ==
    /\ IF next.pc = "done"
       THEN /\ cycles' = [d \in DOMAIN cycles \ {c} |-> cycles[d]]
            /\ finished' = next
            /\ mainPc' = process_after(mainPc, next.outcome)
       ELSE /\ cycles' = [cycles EXCEPT ![c] = next]
            /\ UNCHANGED <<finished, mainPc>>
    /\ UNCHANGED <<config, ticks, mainLog, harnessVars>>

\* the task of cycle c is polled for the first time
StartCycle(c) ==
    /\ cycles[c].pc = "start"
    /\ \E ifaddrs \in IF strategy_of(cycles[c].cfg.ipv6_method) = "local"
                      THEN SystemIfAddrs
                      ELSE {NoIfAddrs} :
         Step(c, start_cycle(cycles[c], ifaddrs))

\* the GET to the IP service of cycle c completes
IpResponse(c) ==
    /\ cycles[c].pc = "await_ip"
    /\ \E resp \in IpServiceResponses : Step(c, ip_response(cycles[c], resp))

\* the GET to the provider of cycle c completes
PubResponse(c) ==
    /\ cycles[c].pc = "await_pub"
    /\ \E resp \in ProviderResponses : Step(c, pub_response(cycles[c], resp))

Next ==
    \/ LoadConfig
    \/ NewScheduler
    \/ NewJob
    \/ AddJob
    \/ StartScheduler
    \/ Tick
    \/ \E c \in DOMAIN cycles : StartCycle(c)
    \/ \E c \in DOMAIN cycles : IpResponse(c)
    \/ \E c \in DOMAIN cycles : PubResponse(c)

Spec == Init /\ [][Next]_vars

-----------------------------------------------------------------------------
(* get_local_ipv6_address on its own: every enumeration of up to MaxIfaces  *)
(* entries, every interface_name argument                                   *)

NameArgs == IfNames \cup {None, "wlan9"}

InitLocal ==
    /\ mainPc = "load_config"
    /\ config = NoConfig
    /\ ticks = 0
    /\ cycles = NoCycles
    /\ finished = NoCycle
    /\ mainLog = <<>>
    /\ lpc = "ready"
    /\ lIfs \in IfAddrsResults
    /\ lName \in NameArgs
    /\ lRes = Pending
    /\ sFile = NotGiven
    /\ sEnv = NoSettings

LocalScan ==
    /\ lpc = "ready"
    /\ lRes' = get_local_ipv6_address(lIfs, lName).res
    /\ lpc' = "done"
    /\ UNCHANGED <<lIfs, lName, mainVars, startVars>>

NextLocal == LocalScan

SpecLocal == InitLocal /\ [][NextLocal]_vars

\* What the runtime guarantees: main runs on, the scheduler fires the job
\* at its times, and a spawned task is polled. Whether and when the IP
\* service or the provider answers is not in the program's hands, and the
\* program sets no timer on either request.
Fairness ==
    /\ WF_vars(LoadConfig)
    /\ WF_vars(NewScheduler)
    /\ WF_vars(NewJob)
    /\ WF_vars(AddJob)
    /\ WF_vars(StartScheduler)
    /\ WF_vars(Tick)
    /\ \A c \in 1..MaxTicks : WF_vars(c \in DOMAIN cycles /\ StartCycle(c))

FairSpec == Spec /\ Fairness

-----------------------------------------------------------------------------
(* The process started with a given config.toml and environment            *)

\* main up to Config::from_env, with the file and environment of the harness
LoadGivenConfig == LoadConfigFrom(sFile, sEnv)

StartFiles ==
    { File("absent", NoSettings),
      File("parsed", Settings(None, "local", None, "home", "s3cret", "eth0")),
      File("parsed", Settings(None, None, None, "home", None, None)) }

StartEnvs ==
    { NoSettings,
      Settings(None, None, None, "office", "t0ken", None),
      Settings(None, None, None, None, "t0ken", None) }

InitStartup ==
    /\ mainPc = "load_config"
    /\ config = NoConfig
    /\ ticks = 0
    /\ cycles = NoCycles
    /\ finished = NoCycle
    /\ mainLog = <<>>
    /\ lpc = "off"
    /\ lIfs = [ok |-> FALSE, list |-> <<>>]
    /\ lName = None
    /\ lRes = Pending
    /\ sFile \in StartFiles
    /\ sEnv \in StartEnvs

NextStartup ==
    \/ LoadGivenConfig
    \/ NewScheduler
    \/ NewJob
    \/ AddJob
    \/ StartScheduler
    \/ Tick
    \/ \E c \in DOMAIN cycles : StartCycle(c)
    \/ \E c \in DOMAIN cycles : IpResponse(c)
    \/ \E c \in DOMAIN cycles : PubResponse(c)

SpecStartup == InitStartup /\ [][NextStartup]_vars

-----------------------------------------------------------------------------
(* Config::from_env on its own: every combination of a config.toml and an  *)
(* environment over the values below                                       *)

AllSettings ==
    [cron : {None, "0 0 * * * *"},
     ipv6_method : {None, "local"},
     ip_service_url : {None, "https://ip.example"},
     duckdns_domain : {None, "", "home"},
     duckdns_token : {None, "", "s3cret"},
     hosts_interface : {None, "eth0"}]

AllFiles ==
    {File("absent", NoSettings), File("invalid", NoSettings)} \cup
    {File("parsed", f) : f \in AllSettings}

InitConfig ==
    /\ mainPc = "load_config"
    /\ config = NoConfig
    /\ ticks = 0
    /\ cycles = NoCycles
    /\ finished = NoCycle
    /\ mainLog = <<>>
    /\ lpc = "off"
    /\ lIfs = [ok |-> FALSE, list |-> <<>>]
    /\ lName = None
    /\ lRes = Pending
    /\ sFile \in AllFiles
    /\ sEnv \in AllSettings

NextConfig == LoadGivenConfig

SpecConfig == InitConfig /\ [][NextConfig]_vars

-----------------------------------------------------------------------------
(* Properties *)

\* every cycle the state knows: the ones in flight and the last finished
\* message msg has the string s among its fragments
Contains(msg, s) == \E i \in DOMAIN msg : msg[i].a = <<>> /\ msg[i].s = s

\* str::trim: leading and trailing whitespace removed
Whitespace == {" ", "\n", "\t", "\r"}

RECURSIVE TrimStart(_)
TrimStart(cs) ==
    IF cs # <<>> /\ Head(cs) \in Whitespace THEN TrimStart(Tail(cs)) ELSE cs

RECURSIVE TrimEnd(_)
TrimEnd(cs) ==
    IF cs # <<>> /\ cs[Len(cs)] \in Whitespace
    THEN TrimEnd(SubSeq(cs, 1, Len(cs) - 1)) ELSE cs

Trim(cs) == TrimEnd(TrimStart(cs))

\* the groups of cs between its colons
RECURSIVE SplitColon(_)
SplitColon(cs) ==
    IF \A i \in DOMAIN cs : cs[i] # ":" THEN <<cs>>
    ELSE LET i == CHOOSE k \in DOMAIN cs :
                      cs[k] = ":" /\ \A j \in 1..(k - 1) : cs[j] # ":" IN
         <<SubSeq(cs, 1, i - 1)>> \o SplitColon(SubSeq(cs, i + 1, Len(cs)))

HexDigits ==
    {"0", "1", "2", "3", "4", "5", "6", "7", "8", "9",
     "a", "b", "c", "d", "e", "f", "A", "B", "C", "D", "E", "F"}

\* cs is a syntactically valid IPv6 literal: eight groups of one to four
\* hexadecimal digits, or fewer with a single "::" standing for the
\* missing zero groups
IsIPv6Literal(cs) ==
    LET g == SplitColon(cs)
        n == Len(g)
        empty == {k \in 1..n : g[k] = <<>>}
        full == (1..n) \ empty IN
    /\ \A k \in full : Len(g[k]) <= 4 /\ \A j \in DOMAIN g[k] : g[k][j] \in HexDigits
    /\ \/ empty = {} /\ n = 8
       \/ /\ Cardinality(full) <= 7
          /\ \/ \E k \in 2..(n - 1) : empty = {k}
             \/ n >= 3 /\ empty = {1, 2}
             \/ n >= 3 /\ empty = {n - 1, n}
             \/ n = 3 /\ empty = {1, 2, 3}

AllCycles == {cycles[c] : c \in DOMAIN cycles} \cup {finished}

Failed(r) == r.pc = "done" /\ ~r.outcome.ok

\* C1: a cycle that ends in Failure does not terminate the process or the
\* scheduler: main is still in its loop with the scheduler started, and
\* the next tick is still able to start a new cycle.
C1_FailureContained ==
    Failed(finished) =>
        /\ mainPc = "loop"
        /\ ticks < MaxTicks => ENABLED Tick

\* C1 witness: a cycle failed on a rejected publish (403) while ticks remain
C1_Witness ==
    /\ Failed(finished)
    /\ finished.response.kind = "ok" /\ finished.response.status = 403
    /\ ticks < MaxTicks

\* C2: in every cycle a publish request exists only if the resolve of that
\* cycle succeeded; a cycle whose resolve failed ends in Failure with the
\* resolve error as reason and has sent no publish request.
C2_PublishOnlyAfterResolve ==
    \A r \in AllCycles :
        /\ r.requests # <<>> => r.resolve.ok
        /\ (r.pc # "none" /\ ~r.resolve.ok /\ r.resolve.err.kind # "pending") =>
               /\ r.pc = "done"
               /\ ~r.outcome.ok
               /\ r.outcome.err = r.resolve.err
               /\ r.requests = <<>>
               /\ r.response = NoResponse

\* C2 witness: a cycle ended on a failed GET to the IP service
C2_Witness ==
    /\ finished.pc = "done"
    /\ finished.ipResponse.kind = "send_err"
    /\ ~finished.resolve.ok
    /\ finished.requests = <<>>

\* C3: a finished cycle's outcome is Success exactly when its resolve
\* succeeded and its publish succeeded; with resolve succeeded and publish
\* failed it is Failure with the publish error as reason.
C3_OutcomeIffBothSucceed ==
    finished.pc = "done" =>
        LET published == finished.response.kind # "none"
            pub == publish_result(finished.response).res
            bothOk == finished.resolve.ok /\ published /\ pub.ok IN
        /\ finished.outcome.ok <=> bothOk
        /\ (finished.resolve.ok /\ ~bothOk) =>
               /\ published
               /\ ~finished.outcome.ok
               /\ finished.outcome.err = pub.err

\* C3 witness: resolve succeeded, the provider answered 400, the cycle failed
C3_Witness ==
    /\ finished.pc = "done"
    /\ finished.resolve.ok
    /\ finished.response.kind = "ok" /\ finished.response.status = 400
    /\ ~finished.outcome.ok
    /\ finished.outcome.err.kind = "ProviderRejected"

\* C4 (as claimed): whenever the provider's response carries a status,
\* the publish result follows the status class alone, whether or not the
\* body can be read: 2xx is Success, anything else is ProviderRejected
\* carrying the status.
C4_StatusAloneDecides ==
    (finished.pc = "done" /\ finished.response.kind \in {"ok", "text_err"}) =>
        LET st == finished.response.status IN
        IF st \in 200..299
        THEN finished.outcome.ok
        ELSE /\ ~finished.outcome.ok
             /\ finished.outcome.err.kind = "ProviderRejected"
             /\ Contains(finished.outcome.err.msg, StatusText(st))

\* C4 (amended): when the body of the provider's response is read, the
\* result follows the status class alone, whatever the body: 2xx is
\* Success, anything else is ProviderRejected carrying the status; when
\* the body cannot be read the publish fails with a Transport error,
\* whatever the status.
C4_StatusDecidesOnceBodyRead ==
    finished.pc = "done" =>
        LET st == finished.response.status IN
        /\ finished.response.kind = "ok" =>
              IF st \in 200..299
              THEN finished.outcome.ok
              ELSE /\ ~finished.outcome.ok
                   /\ finished.outcome.err.kind = "ProviderRejected"
                   /\ Contains(finished.outcome.err.msg, StatusText(st))
        /\ finished.response.kind = "text_err" =>
              /\ ~finished.outcome.ok
              /\ finished.outcome.err.kind = "Transport"

\* C4 witness: the provider answered 204 with body "KO" and the publish
\* succeeded
C4_Witness ==
    /\ finished.pc = "done"
    /\ finished.response = HttpResponse("ok", 204, <<"K", "O">>)
    /\ finished.outcome.ok

\* C5 (as claimed): with the External strategy, a body of the IP service
\* that is not a valid IPv6 literal makes resolve fail with InvalidAddress,
\* and no publish request is sent in that cycle.
C5_InvalidBodyRejected ==
    \A r \in AllCycles :
        (r.strategy = "external" /\ r.ipResponse.kind = "ok"
           /\ ~IsIPv6Literal(Trim(r.ipResponse.body))) =>
            /\ ~r.resolve.ok
            /\ r.resolve.err.kind = "InvalidAddress"
            /\ r.requests = <<>>

\* C6 (as claimed): no log line of the program contains the auth token.
C6_NoTokenInLogs ==
    config.duckdns_token \notin {None, ""} =>
        /\ \A i \in DOMAIN mainLog : ~Contains(mainLog[i].msg, config.duckdns_token)
        /\ \A r \in AllCycles : \A i \in DOMAIN r.log :
               ~Contains(r.log[i].msg, config.duckdns_token)

\* C9: a cycle whose method is neither "external" nor "local" logs a line
\* of warning severity or above that names the method, then sends one GET
\* to the IP service; it never queries the local interfaces.
C9_UnknownMethodFallsBack ==
    \A r \in AllCycles :
        (r.pc \notin {"none", "start"}
           /\ r.cfg.ipv6_method \notin {"external", "local"}) =>
            /\ r.strategy = "external"
            /\ r.ifQueries = 0
            /\ r.ipRequests = 1
            /\ \E i, j \in DOMAIN r.log :
                  /\ i < j
                  /\ r.log[i].level \in {"WARN", "ERROR"}
                  /\ Contains(r.log[i].msg, r.cfg.ipv6_method)
                  /\ r.log[j].msg[1] = Lit("Fetching IPv6 from external service: ")

\* C9 witness: a cycle configured with method "dns" resolved through the IP
\* service and finished
C9_Witness ==
    /\ finished.pc = "done"
    /\ finished.cfg.ipv6_method = "dns"
    /\ finished.ipResponse.kind = "ok"
    /\ finished.resolve.ok

\* C10 (as claimed): with the External strategy the resolved address is
\* the body of the IP service's response with leading and trailing
\* whitespace trimmed.
C10_BodyTrimmed ==
    \A r \in AllCycles :
        (r.strategy = "external" /\ r.ipResponse.kind = "ok" /\ r.resolve.ok) =>
            r.resolve.val = Trim(r.ipResponse.body)

\* C7: with no interface name and an enumeration that succeeded, resolve
\* returns the address of the first entry, in enumeration order, that is
\* not loopback and carries an IPv6 address (so never an address taken
\* from a loopback entry), and fails with NoAddressFound exactly when no
\* such entry exists.
C7_FirstNonLoopbackIPv6 ==
    (lpc = "done" /\ lIfs.ok /\ lName = None) =>
        LET list == lIfs.list
            cand == {i \in DOMAIN list : ~list[i].loopback /\ list[i].v6} IN
        IF cand = {}
        THEN ~lRes.ok /\ lRes.err.kind = "NoAddressFound"
        ELSE LET first == CHOOSE i \in cand : \A j \in cand : i <= j IN
             lRes.ok /\ lRes.val = to_string(list[first].addr)

\* C7 witness: a loopback entry with an IPv6 address comes first, a
\* non-loopback entry with another IPv6 address second, and the second
\* one's address is returned
C7_Witness ==
    /\ lpc = "done" /\ lIfs.ok /\ lName = None
    /\ Len(lIfs.list) = 2
    /\ lIfs.list[1].loopback /\ lIfs.list[1].v6 /\ lIfs.list[1].addr = 1
    /\ ~lIfs.list[2].loopback /\ lIfs.list[2].v6 /\ lIfs.list[2].addr = 3
    /\ lRes.ok /\ lRes.val = to_string(3)

\* C8: with an interface name given and an enumeration that succeeded,
\* resolve returns the address of the first IPv6 entry whose name is
\* exactly the given name, and fails with InterfaceNotFound when no entry
\* has that name or no entry of that name carries an IPv6 address; an
\* entry of another name is never used.
C8_OnlyNamedInterface ==
    (lpc = "done" /\ lIfs.ok /\ lName # None) =>
        LET list == lIfs.list
            cand == {i \in DOMAIN list : list[i].name = lName /\ list[i].v6} IN
        IF cand = {}
        THEN ~lRes.ok /\ lRes.err.kind = "InterfaceNotFound"
        ELSE LET first == CHOOSE i \in cand : \A j \in cand : i <= j IN
             lRes.ok /\ lRes.val = to_string(list[first].addr)

\* C8 witness: eth0 is asked for, it has an entry without IPv6 followed by
\* an entry of lo with an IPv6 address, and resolve fails
C8_Witness ==
    /\ lpc = "done" /\ lIfs.ok /\ lName = "eth0"
    /\ Len(lIfs.list) = 2
    /\ lIfs.list[1].name = "eth0" /\ ~lIfs.list[1].v6
    /\ lIfs.list[2].name = "lo" /\ lIfs.list[2].v6
    /\ ~lRes.ok /\ lRes.err.kind = "InterfaceNotFound"

\* the settings of the source the process takes its configuration from:
\* the file when it is read, parsed and carries domain and token, else the
\* environment
InEffect ==
    IF /\ sFile.state = "parsed"
       /\ sFile.settings.duckdns_domain # None
       /\ sFile.settings.duckdns_token # None
    THEN sFile.settings
    ELSE sEnv

\* the scheduler exists, or existed
SchedulerCreated ==
    mainPc \in {"job_new", "scheduler_add", "scheduler_start", "loop"}

NoCycleEver == ticks = 0 /\ cycles = NoCycles /\ finished = NoCycle

\* C11: when the domain or the token is absent from the configuration in
\* effect, the process dies in startup: once the configuration is loaded
\* it is in the panicked state, the scheduler is never created and no
\* cycle ever exists.
C11_AbsentIsFatal ==
    (mainPc # "load_config"
       /\ (InEffect.duckdns_domain = None \/ InEffect.duckdns_token = None)) =>
        /\ mainPc = "panicked"
        /\ ~SchedulerCreated
        /\ NoCycleEver

\* C11 witness: config.toml parses but has no token, the environment has a
\* token but no domain, and the process panicked
C11_Witness ==
    /\ mainPc = "panicked"
    /\ sFile.state = "parsed" /\ sFile.settings.duckdns_token = None
    /\ sEnv.duckdns_domain = None /\ sEnv.duckdns_token # None

\* C12 (as claimed): whenever the scheduler has been started, the domain
\* and the token of the configuration are non-empty strings, and no cycle
\* runs under a configuration with an empty domain or token.
C12_DomainTokenNonEmpty ==
    /\ mainPc = "loop" =>
          /\ config.duckdns_domain \notin {None, ""}
          /\ config.duckdns_token \notin {None, ""}
    /\ \A r \in AllCycles : r.pc # "none" =>
          /\ r.cfg.duckdns_domain \notin {None, ""}
          /\ r.cfg.duckdns_token \notin {None, ""}

\* C13 (as claimed): every cycle that starts eventually ends, in Success
\* or in Failure, also when the IP service or the provider never answers.
C13_EveryCycleEnds ==
    \A c \in 1..MaxTicks : (c \in DOMAIN cycles) ~> (c \notin DOMAIN cycles)

\* what a cycle with the configuration and the answers of r comes to when
\* it runs on its own, up to the point r has reached
Solo(r) ==
    LET a == start_cycle(NewCycle(r.cfg), r.ifaddrs) IN
    IF r.pc = "start" THEN NewCycle(r.cfg)
    ELSE IF a.pc = "await_ip"
    THEN IF r.ipResponse.kind = "none" THEN a
         ELSE LET b == ip_response(a, r.ipResponse) IN
              IF b.pc = "done" \/ r.response.kind = "none" THEN b
              ELSE pub_response(b, r.response)
    ELSE IF a.pc = "done" \/ r.response.kind = "none" THEN a
         ELSE pub_response(a, r.response)

\* C14: a tick can fire while cycles are in flight, and whatever the
\* interleaving, every cycle (in flight or finished) is in the state it
\* would have reached alone with the same configuration and the answers
\* to its own requests: no step of another cycle shows in it.
C14_CyclesIndependent ==
    /\ (mainPc = "loop" /\ ticks < MaxTicks) => ENABLED Tick
    /\ \A r \in AllCycles : r.pc # "none" => (r.cfg = config /\ r = Solo(r))

\* C14 witness: two cycles are in flight at once, both past their resolve,
\* with different addresses
C14_Witness ==
    /\ DOMAIN cycles = {1, 2}
    /\ cycles[1].pc = "await_pub" /\ cycles[2].pc = "await_pub"
    /\ cycles[1].resolve.val # cycles[2].resolve.val

\* what a cycle was given: its configuration and the answers it received
Inputs(r) == <<r.cfg, r.ifQueries, r.ifaddrs, r.ipResponse, r.response>>

\* the kind of a finished cycle's outcome
OutcomeKind(r) ==
    IF r.outcome.ok THEN "Success"
    ELSE IF ~r.resolve.ok THEN "FailureFromResolve"
    ELSE "FailureFromPublish"

\* C15: when a cycle finishes with the configuration and the answers the
\* cycle finished before it had, its outcome is of the same kind: what
\* earlier cycles came to does not show in it.
C15_SameInputsSameOutcome ==
    [][(finished.pc = "done" /\ finished'.pc = "done"
          /\ Inputs(finished') = Inputs(finished))
       => OutcomeKind(finished') = OutcomeKind(finished)]_vars

\* C15 witness: a cycle has finished successfully and a later cycle that
\* got the same answer from the IP service is waiting for the provider
C15_Witness ==
    /\ finished.pc = "done" /\ finished.outcome.ok
    /\ \E c \in DOMAIN cycles :
          /\ cycles[c].pc = "await_pub"
          /\ cycles[c].cfg = finished.cfg
          /\ cycles[c].ipResponse = finished.ipResponse
          /\ cycles[c].ipResponse.kind = "ok"

\* C17: a cycle sends at most one GET to the IP service or makes at most
\* one interface query, and sends at most one request to the provider,
\* whatever the results; a finished cycle has left the tasks, and there
\* are never more cycles than ticks.
C17_NoRetry ==
    /\ \A r \in AllCycles :
          /\ r.ipRequests + r.ifQueries <= 1
          /\ Len(r.requests) <= 1
          /\ r.pc = "done" => r = finished
    /\ DOMAIN cycles \subseteq 1..ticks

\* C17 witness: a cycle failed on the provider's 403 after exactly one GET
\* to the IP service and one request to the provider
C17_Witness ==
    /\ Failed(finished)
    /\ finished.response.kind = "ok" /\ finished.response.status = 403
    /\ finished.ipRequests = 1 /\ Len(finished.requests) = 1
    /\ ticks = 1

\* C18: every request a cycle sent to the provider carries the address
\* its own resolve returned, with the configured domain and token.
C18_PublishesOwnAddress ==
    \A r \in AllCycles : \A i \in DOMAIN r.requests :
        /\ r.resolve.ok
        /\ r.requests[i] =
              <<Lit("https://www.duckdns.org/update?domains="),
                Lit(config.duckdns_domain),
                Lit("&token="), Lit(config.duckdns_token),
                Lit("&ipv6="), Chars(r.resolve.val), Lit("&verbose=true")>>

\* C18 witness: a cycle finished with one address, and a cycle in flight
\* has sent its request with another address, its own
C18_Witness ==
    /\ finished.pc = "done" /\ finished.resolve.ok
    /\ \E c \in DOMAIN cycles :
          /\ cycles[c].pc = "await_pub"
          /\ cycles[c].resolve.val # finished.resolve.val
          /\ cycles[c].requests[1][6] = Chars(cycles[c].resolve.val)

\* C19: when the interface name given is that of a loopback entry with an
\* IPv6 address, and that entry is the first IPv6 entry of that name,
\* resolve returns its address: the loopback skip applies only without a
\* name.
C19_NamedLoopbackReturned ==
    (lpc = "done" /\ lIfs.ok /\ lName # None) =>
        \A i \in DOMAIN lIfs.list :
            (/\ lIfs.list[i].name = lName
             /\ lIfs.list[i].loopback
             /\ lIfs.list[i].v6
             /\ \A j \in 1..(i - 1) :
                    ~(lIfs.list[j].name = lName /\ lIfs.list[j].v6)) =>
                (lRes.ok /\ lRes.val = to_string(lIfs.list[i].addr))

\* C19 witness: "lo" is asked for, its loopback entry carries ::1 and comes
\* after a non-loopback entry of eth0 with another address, and ::1 is
\* returned
C19_Witness ==
    /\ lpc = "done" /\ lIfs.ok /\ lName = "lo"
    /\ Len(lIfs.list) = 2
    /\ lIfs.list[1].name = "eth0" /\ ~lIfs.list[1].loopback
    /\ lIfs.list[1].v6 /\ lIfs.list[1].addr = 3
    /\ lIfs.list[2].name = "lo" /\ lIfs.list[2].loopback
    /\ lIfs.list[2].v6 /\ lIfs.list[2].addr = 1
    /\ lRes.ok /\ lRes.val = to_string(1)

\* the configuration a source's settings make when domain and token are
\* there: cron, method and IP service URL take the defaults when unset
Completed(s) ==
    [cron |-> IF s.cron = None THEN "0 */5 * * * *" ELSE s.cron,
     ipv6_method |-> IF s.ipv6_method = None THEN "external" ELSE s.ipv6_method,
     ip_service_url |-> IF s.ip_service_url = None THEN "https://6.ipw.cn"
                        ELSE s.ip_service_url,
     duckdns_domain |-> s.duckdns_domain,
     duckdns_token |-> s.duckdns_token,
     hosts_interface |-> s.hosts_interface]

\* startup went by the settings s alone: fatal when the domain or the
\* token is missing from them, else the configuration they make
LoadedFrom(s) ==
    IF s.duckdns_domain = None \/ s.duckdns_token = None
    THEN mainPc = "panicked"
    ELSE mainPc = "scheduler_new" /\ config = Completed(s)

\* C16 (as claimed): once the configuration is loaded, it comes from
\* config.toml whenever the file is present and parses, and from the
\* environment only otherwise; a missing domain or token is fatal and
\* cron, method and IP service URL take their defaults when unset.
C16_FileWhenItParses ==
    mainPc # "load_config" =>
        IF sFile.state = "parsed" THEN LoadedFrom(sFile.settings)
        ELSE LoadedFrom(sEnv)
=============================================================================
